---- MODULE Spec2Model ----
(***************************************************************************)
(* Speech-session pipeline of src/src/sockets/index.ts (the /speech        *)
(* namespace): one client socket, its SessionData, the temp WAV file that  *)
(* backs the session, and the asynchronous handlers that run on the Node   *)
(* event loop.  Every `await` of the source is a suspension point: a       *)
(* handler is a task whose pc names the await it is parked on, and one     *)
(* action runs a task from one await to the next.  Promise rejections that *)
(* involve no I/O settle in microtasks and are folded into the step that   *)
(* causes them.  Two smaller parts follow the pipeline: the Express       *)
(* application of src/src/server.ts with its /health route, and the        *)
(* client's WebSocketService (src/client/src/services/websocket).          *)
(***************************************************************************)
EXTENDS Bags, FiniteSets, Integers, Sequences, TLC

\* ---------------------------------------------------------------- bounds
MaxFrames == 2       \* audio messages the client sends over the connection
MaxStops == 1        \* stop-recording messages the client sends
MaxDrains == 1       \* resume-recording handlers draining at the same time
MaxCleanups == 1     \* cleanupSession calls in progress at the same time
DrainFrames == 3     \* audio messages in the pause/resume scenario (DrainSpec)
LiveFrames == 1      \* audio messages in the fair scenario (LiveSpec)
ClosedStops == 2     \* stop-recording messages sent after the session closed
MaxWavFrames == 4    \* frames appended behind one WAV header (WavSpec)
FaultFrames == 3     \* audio messages in the disk-fault scenario (FaultSpec)

\* ------------------------------------------------------- program constants
SAMPLE_RATE == 16000     \* default session sample rate
WavHeaderSize == 44      \* bytes written by createWavHeader
MAX_AUDIO_SIZE == 26214400   \* 25 * 1024 * 1024
MAX_RETRIES == 3         \* attempts of transcribeWithRetry
RETRY_DELAY_MS == 1000   \* first backoff delay
MaxDelayMs == 30000      \* cap of the backoff delay
FallbackRate == 16000    \* sample rate handed to the fallback engine

\* ----------------------------------------------------------------- inputs
\* Payloads are decodable (a base64 string with format 'wav', or an array):
\* "wav" carries the RIFF/WAVE signature, "raw" does not.
FrameKinds == {"wav", "raw"}
FrameSizes == {3000, 16000}   \* decoded payload length in bytes
FrameRates == {0, 8000}       \* data.sampleRate of a message; 0 = not given

VARIABLES
  sock,         \* "none" | "connected" | "disconnected"
  hasSid,       \* whether (socket as any).sessionId is set on the socket
  inMap,        \* sessions.has(socket.id)
  session,      \* the SessionData object (outlives its map entry)
  file,         \* the temp file named by session.tempFile
  frames,       \* audio messages received so far, in arrival order, each
                \* with the response it got; a frame acknowledged "buffered"
                \* is marked "resumed" once a resume-recording has been
                \* handled after it
  tasks,        \* bag of suspended handler invocations
  ctlAck,       \* last acknowledgment of a control message
  nStops,       \* stop-recording messages sent so far
  call,         \* one transcribeWithRetry call followed from start to end
                \* (RetrySpec); NoCall everywhere else
  wav,          \* the bytes of one temp file's WAV header and the number of
                \* audio bytes behind it (WavSpec); NoWav everywhere else
  health,       \* the HTTP server's environment and its last answer to
                \* GET /health (HealthSpec); NoHealth everywhere else
  ws            \* one WebSocketService instance of the client
                \* (SocketSpec); NoWs everywhere else

vars ==
  <<sock, hasSid, inMap, session, file, frames, tasks, ctlAck, nStops, call,
    wav, health, ws>>

MaxSubs == 2   \* per-frame submission count saturates here

\* SessionData as built by the connection handler.  lastProcessed is kept
\* as `stale`: whether now - lastProcessed exceeds the reaper's timeout.
NewSession ==
  [isPaused |-> FALSE, pendingFinalize |-> FALSE, pendingChunks |-> <<>>,
   tempFile |-> FALSE, writeStream |-> "none", sampleRate |-> SAMPLE_RATE,
   stale |-> FALSE]

NoFile == [exists |-> FALSE, header |-> FALSE, data |-> <<>>, dataSize |-> 0]

\* no transcribeWithRetry call is being followed
NoCall == [pc |-> "none"]

\* no GET /health has been answered
NoHealth ==
  [env |-> "unset", origins |-> "*", resp |-> [code |-> 0], live |-> FALSE]

\* no client service instance is being followed
\* a WebSocketService constructed with autoConnect: false.  socks are the
\* sockets made by io() in the order of their creation, cur is this.socket
\* (0 for null); sent numbers the messages passed to send(), emitted lists
\* those given to socket.emit, flushed counts the ones that went through
\* messageQueue.
NoWs ==
  [socks |-> <<>>, cur |-> 0, reconnectAttempts |-> 0,
   reconnectTimer |-> FALSE, isExplicitDisconnect |-> FALSE,
   messageQueue |-> <<>>, emitted |-> <<>>, sent |-> 0, flushed |-> 0]

\* no temp file's header is being followed
NoWav == [buf |-> <<>>, bytes |-> 0, final |-> -1, n |-> 0]

Task(kind, pc, frame, idx, live, arr) ==
  [kind |-> kind, pc |-> pc, frame |-> frame, idx |-> idx, live |-> live,
   arr |-> arr]

\* a processAudioChunk call parked on its fs.stat, run on behalf of `kind`
PTask(kind) == Task(kind, "p_stat", 0, 0, FALSE, <<>>)

\* ---------------------------------------------------------------- helpers
RECURSIVE SumSizes(_, _)
SumSizes(fs, seq) ==
  IF seq = <<>> THEN 0 ELSE fs[Head(seq)].size + SumSizes(fs, Tail(seq))

\* stats.size of the temp file
FileSize(f, fs) ==
  (IF f.header THEN WavHeaderSize ELSE 0) + SumSizes(fs, f.data)

RECURSIVE SumCopies(_, _)
SumCopies(S, b) ==
  IF S = {} THEN 0
  ELSE LET t == CHOOSE x \in S : TRUE IN b[t] + SumCopies(S \ {t}, b)

Spawn(b, t) == b (+) SetToBag({t})
Retire(b, t) == b (-) SetToBag({t})
Swap(b, t, u) == Spawn(Retire(b, t), u)

CountKind(b, kind) ==
  SumCopies({t \in BagToSet(b) : t.kind = kind}, b)

IsPPc(pc) == pc \in {"p_stat", "p_read", "p_wait"}

\* processAudioChunk invocations that have started and not yet returned
InFlight == SumCopies({t \in BagToSet(tasks) : IsPPc(t.pc)}, tasks)

Init ==
  /\ sock = "none"
  /\ hasSid = FALSE
  /\ inMap = FALSE
  /\ session = NewSession
  /\ file = NoFile
  /\ frames = <<>>
  /\ tasks = EmptyBag
  /\ ctlAck = "none"
  /\ nStops = 0
  /\ call = NoCall
  /\ wav = NoWav
  /\ health = NoHealth
  /\ ws = NoWs

\* speechNsp.on('connection'): the session is created under socket.id.  The
\* handler never assigns socket.sessionId; whether the socket object carries
\* that property is decided outside this file, so both cases are explored.
Connect ==
  /\ sock = "none"
  /\ sock' = "connected"
  /\ hasSid' \in BOOLEAN
  /\ inMap' = TRUE
  /\ session' = NewSession
  /\ UNCHANGED <<file, frames, tasks, ctlAck, nStops, call, wav, health, ws>>

\* ----------------------------------------------------------- streamToDisk
\* What a call of streamToDisk does before it suspends: allocate the temp
\* file and await the header write ("hdr"), hand the bytes to the open
\* write stream ("write"), or reject because the stream is missing or has
\* been ended ("reject").
StreamToDisk(s) ==
  IF ~s.tempFile THEN "hdr"
  ELSE IF s.writeStream = "open" THEN "write"
  ELSE "reject"

\* writeStream.write(audioData): the stream appends in call order; bytes
\* written to an unlinked file are not visible under its path any more
FileAppend(f, frame) ==
  IF f.exists THEN [f EXCEPT !.data = Append(@, frame)] ELSE f

\* --------------------------------------------------------- cleanupSession
CleanupTask == Task("cleanup", "ending", 0, 0, FALSE, <<>>)

\* The synchronous part of cleanupSession(sessionId, session), starting from
\* session value s and task bag b: end the write stream and suspend, or
\* suspend on the unlink, or (nothing to release) delete the map entry at
\* once.
CleanupCall(s, b) ==
  IF s.writeStream # "none" \/ s.tempFile
  THEN /\ session' = [s EXCEPT !.writeStream =
                                 IF @ = "none" THEN "none" ELSE "ended"]
       /\ tasks' = Spawn(b, CleanupTask)
       /\ inMap' = inMap
  ELSE /\ session' = s
       /\ tasks' = b
       /\ inMap' = FALSE

\* CleanupDone without the `finally { sessions.delete(sessionId) }`
CleanupDone_KeepsEntry(t) ==
  /\ t.kind = "cleanup"
  /\ file' = IF session.tempFile THEN NoFile ELSE file
  /\ tasks' = Retire(tasks, t)
  /\ UNCHANGED <<sock, hasSid, inMap, session, frames, ctlAck, nStops,
                 call, wav, health, ws>>

\* cleanupSession after its awaits: the temp file is unlinked and the
\* session is deleted from the map
CleanupDone(t) ==
  /\ t.kind = "cleanup"
  /\ file' = IF session.tempFile THEN NoFile ELSE file
  /\ inMap' = FALSE
  /\ tasks' = Retire(tasks, t)
  /\ UNCHANGED <<sock, hasSid, session, frames, ctlAck, nStops,
                 call, wav, health, ws>>

\* Reaper that passes over paused sessions
Reaper_SkipsPaused ==
  /\ inMap
  /\ session.stale
  /\ ~session.isPaused
  /\ CountKind(tasks, "cleanup") < MaxCleanups
  /\ CleanupCall(session, tasks)
  /\ UNCHANGED <<sock, hasSid, file, frames, ctlAck, nStops,
                 call, wav, health, ws>>

\* setInterval reaper: a session whose lastProcessed is older than the
\* timeout is handed to cleanupSession (not awaited)
Reaper ==
  /\ inMap
  /\ session.stale
  /\ CountKind(tasks, "cleanup") < MaxCleanups
  /\ CleanupCall(session, tasks)
  /\ UNCHANGED <<sock, hasSid, file, frames, ctlAck, nStops,
                 call, wav, health, ws>>

\* time passes until lastProcessed is older than the reaper's timeout
Tick ==
  /\ sock # "none"
  /\ ~session.stale
  /\ session' = [session EXCEPT !.stale = TRUE]
  /\ UNCHANGED <<sock, hasSid, inMap, file, frames, tasks, ctlAck, nStops,
                 call, wav, health, ws>>

\* ------------------------------------------------------ shouldProcessChunk
\* session.lastProcessed === 0: lastProcessed is only ever assigned
\* Date.now(), so the "first chunk" disjunct never holds
LastProcessedIsZero == FALSE

MinAudioBytes(s) == (s.sampleRate * 2) \div 2

\* called with session.tempFile set; statSync throws when the file is gone
\* and the catch block answers true
ShouldProcessChunk(s, f, fs) ==
  IF ~f.exists THEN TRUE
  ELSE \/ FileSize(f, fs) >= MinAudioBytes(s)
       \/ (LastProcessedIsZero /\ FileSize(f, fs) > 0)
       \/ s.pendingFinalize

\* ------------------------------------------------------- processAudioChunk
\* PReturn with a 'stop-recording' handler that closes the session
PReturn_StopCloses(t, s) ==
  CASE t.kind = "bg" ->
         /\ session' = s
         /\ tasks' = Retire(tasks, t)
         /\ UNCHANGED <<inMap, ctlAck>>
    [] t.kind = "audio" ->
         /\ session' = [s EXCEPT !.pendingFinalize = FALSE]
         /\ tasks' = Retire(tasks, t)
         /\ UNCHANGED <<inMap, ctlAck>>
    [] t.kind = "stop" ->
         /\ CleanupCall([s EXCEPT !.pendingFinalize = FALSE],
                        Retire(tasks, t))
         /\ ctlAck' = "ok"
    [] t.kind = "disc" ->
         /\ CleanupCall(s, Retire(tasks, t))
         /\ UNCHANGED ctlAck

\* What the caller of processAudioChunk does once it has returned (it never
\* rejects after its first await: the catch block swallows every error).
\* s is the session value left by processAudioChunk itself.
PReturn(t, s) ==
  CASE t.kind = "bg" ->
         /\ session' = s
         /\ tasks' = Retire(tasks, t)
         /\ UNCHANGED <<inMap, ctlAck>>
    [] t.kind = "audio" ->
         /\ session' = [s EXCEPT !.pendingFinalize = FALSE]
         /\ tasks' = Retire(tasks, t)
         /\ UNCHANGED <<inMap, ctlAck>>
    [] t.kind = "stop" ->
         /\ session' = [s EXCEPT !.pendingFinalize = FALSE]
         /\ tasks' = Retire(tasks, t)
         /\ ctlAck' = "ok"
         /\ UNCHANGED inMap
    [] t.kind = "disc" ->
         /\ CleanupCall(s, Retire(tasks, t))
         /\ UNCHANGED ctlAck

\* fs.stat and updateWavHeader: a missing or too small file ends the call
\* with an 'error' event; otherwise the data size in the file's header is
\* overwritten with stats.size - 44
PStat(t) ==
  /\ t.pc = "p_stat"
  /\ IF ~file.exists \/ FileSize(file, frames) < WavHeaderSize
     THEN PReturn(t, session) /\ UNCHANGED file
     ELSE /\ tasks' = Swap(tasks, t, [t EXCEPT !.pc = "p_read"])
          /\ file' = [file EXCEPT
                        !.dataSize = FileSize(file, frames) - WavHeaderSize]
          /\ UNCHANGED <<session, inMap, ctlAck>>
  /\ UNCHANGED <<sock, hasSid, frames, nStops, call, wav, health, ws>>

\* the frames whose bytes are in the file content
InFile(f) == {f.data[i] : i \in DOMAIN f.data}

\* transcribeAudio reads the whole file and submits it; every frame in the
\* content read is counted as submitted once more.  The attempts of
\* transcribeWithRetry are kept as one read and one outcome (PDone): each
\* attempt reads the file again, which can only add submissions.
PRead(t) ==
  /\ t.pc = "p_read"
  /\ IF ~file.exists
     THEN PReturn(t, session) /\ UNCHANGED frames
     ELSE /\ frames' = [i \in DOMAIN frames |->
                         IF i \in InFile(file) /\ frames[i].subs < MaxSubs
                         THEN [frames[i] EXCEPT !.subs = @ + 1]
                         ELSE frames[i]]
          /\ tasks' = Swap(tasks, t, [t EXCEPT !.pc = "p_wait"])
          /\ UNCHANGED <<session, inMap, ctlAck>>
  /\ UNCHANGED <<sock, hasSid, file, nStops, call, wav, health, ws>>

\* transcribeWithRetry settles: a transcript is emitted and lastProcessed
\* refreshed, or an 'error' event is emitted
PDone(t) ==
  /\ t.pc = "p_wait"
  /\ \E ok \in BOOLEAN :
       PReturn(t, IF ok THEN [session EXCEPT !.stale = FALSE] ELSE session)
  /\ UNCHANGED <<sock, hasSid, file, frames, nStops, call, wav, health, ws>>

\* ---------------------------------------------------------- socket.on(...)
\* 'process-audio' changes nothing (session.audioChunks is never filled) and
\* has no action.
\* 'init'
InitMsg(rate) ==
  /\ sock = "connected"
  /\ session' = [session EXCEPT !.sampleRate = IF rate # 0 THEN rate ELSE @]
  /\ ctlAck' = "ok"
  /\ UNCHANGED <<sock, hasSid, inMap, file, frames, tasks, nStops,
                 call, wav, health, ws>>

\* AudioMsg that rejects a frame without RIFF/WAVE before it refreshes
\* lastProcessed
AudioMsg_CheckFirst(kind, size, rate) ==
  /\ sock = "connected"
  /\ LET f == Len(frames) + 1
         fr(resp) == Append(frames, [kind |-> kind, size |-> size,
                                     resp |-> resp, subs |-> 0])
         s1 == [session EXCEPT !.stale = FALSE,
                               !.sampleRate = IF rate # 0 THEN rate ELSE @]
     IN
     IF ~inMap THEN
       /\ frames' = fr("none")
       /\ UNCHANGED <<session, file, tasks>>
     ELSE IF session.isPaused THEN
       /\ frames' = fr("buffered")
       /\ session' = [session EXCEPT !.pendingChunks =
                        Append(@, f)]
       /\ UNCHANGED <<file, tasks>>
     ELSE IF kind # "wav" THEN
       /\ frames' = fr("error")
       /\ UNCHANGED <<session, file, tasks>>
     ELSE
       CASE StreamToDisk(s1) = "hdr" ->
              /\ frames' = fr("none")
              /\ session' = [s1 EXCEPT !.tempFile = TRUE]
              /\ tasks' = Spawn(tasks, Task("audio", "hdr", f, 0, FALSE, <<>>))
              /\ UNCHANGED file
         [] StreamToDisk(s1) = "write" ->
              /\ frames' = fr("none")
              /\ session' = s1
              /\ file' = FileAppend(file, f)
              /\ tasks' = Spawn(tasks,
                                Task("audio", "written", f, 0, FALSE, <<>>))
         [] StreamToDisk(s1) = "reject" ->
              /\ frames' = fr("error")
              /\ session' = s1
              /\ UNCHANGED <<file, tasks>>
  /\ UNCHANGED <<sock, hasSid, inMap, ctlAck, nStops, call, wav, health, ws>>

\* 'audio', up to its first await
AudioMsg(kind, size, rate) ==
  /\ sock = "connected"
  /\ LET f == Len(frames) + 1
         fr(resp) == Append(frames, [kind |-> kind, size |-> size,
                                     resp |-> resp, subs |-> 0])
         s1 == [session EXCEPT !.stale = FALSE,
                               !.sampleRate = IF rate # 0 THEN rate ELSE @]
     IN
     IF ~inMap THEN
       /\ frames' = fr("none")
       /\ UNCHANGED <<session, file, tasks>>
     ELSE IF session.isPaused THEN
       /\ frames' = fr("buffered")
       /\ session' = [session EXCEPT !.pendingChunks =
                        Append(@, f)]
       /\ UNCHANGED <<file, tasks>>
     ELSE IF kind # "wav" THEN
       /\ frames' = fr("error")
       /\ session' = s1
       /\ UNCHANGED <<file, tasks>>
     ELSE
       CASE StreamToDisk(s1) = "hdr" ->
              /\ frames' = fr("none")
              /\ session' = [s1 EXCEPT !.tempFile = TRUE]
              /\ tasks' = Spawn(tasks, Task("audio", "hdr", f, 0, FALSE, <<>>))
              /\ UNCHANGED file
         [] StreamToDisk(s1) = "write" ->
              /\ frames' = fr("none")
              /\ session' = s1
              /\ file' = FileAppend(file, f)
              /\ tasks' = Spawn(tasks,
                                Task("audio", "written", f, 0, FALSE, <<>>))
         [] StreamToDisk(s1) = "reject" ->
              /\ frames' = fr("error")
              /\ session' = s1
              /\ UNCHANGED <<file, tasks>>
  /\ UNCHANGED <<sock, hasSid, inMap, ctlAck, nStops, call, wav, health, ws>>

\* streamToDisk after the header write: the file exists with its header,
\* the write stream is opened and the caller's bytes are written
HdrDone(t) ==
  /\ t.pc = "hdr"
  /\ file' = [exists |-> TRUE, header |-> TRUE, data |-> <<t.frame>>,
               dataSize |-> 0]
  /\ session' = [session EXCEPT !.writeStream = "open"]
  /\ tasks' = Swap(tasks, t, [t EXCEPT !.pc = "written"])
  /\ UNCHANGED <<sock, hasSid, inMap, frames, ctlAck, nStops,
                 call, wav, health, ws>>

\* 'audio' after `await streamToDisk`: acknowledge, decide on background
\* processing, and run the awaited final processing when pendingFinalize
AudioWritten(t) ==
  /\ t.kind = "audio"
  /\ t.pc = "written"
  /\ frames' = [frames EXCEPT ![t.frame].resp = "received"]
  /\ LET bg == ShouldProcessChunk(session, file, frames) /\ session.tempFile
         b1 == IF bg THEN Spawn(tasks, PTask("bg")) ELSE tasks
     IN tasks' = IF session.pendingFinalize
                 THEN Swap(b1, t, [t EXCEPT !.pc = "p_stat"])
                 ELSE Retire(b1, t)
  /\ UNCHANGED <<sock, hasSid, inMap, session, file, ctlAck,
                 nStops, call, wav, health, ws>>

\* 'pause-recording' without the `if (session)` lookup check
Pause_NoLookupCheck ==
  /\ sock = "connected"
  /\ IF hasSid
     THEN /\ session' = [session EXCEPT !.isPaused = TRUE]
          /\ ctlAck' = "ok"
     ELSE /\ ctlAck' = "fail"
          /\ UNCHANGED session
  /\ UNCHANGED <<sock, hasSid, inMap, file, frames, tasks, nStops,
                 call, wav, health, ws>>

\* 'pause-recording'
Pause ==
  /\ sock = "connected"
  /\ IF hasSid /\ inMap
     THEN /\ session' = [session EXCEPT !.isPaused = TRUE]
          /\ ctlAck' = "ok"
     ELSE /\ ctlAck' = "fail"
          /\ UNCHANGED session
  /\ UNCHANGED <<sock, hasSid, inMap, file, frames, tasks, nStops,
                 call, wav, health, ws>>

\* a finished drain loop replaces session.pendingChunks by a new array;
\* loops still iterating the old array keep it
Detach(old, u) ==
  IF u.kind = "resume" /\ u.live
  THEN [u EXCEPT !.live = FALSE, !.arr = old]
  ELSE u

\* Detach applied to every task of bag b
DetachAll(old, b) ==
  LET img == {Detach(old, t) : t \in BagToSet(b)}
  IN [u \in img |->
        SumCopies({t \in BagToSet(b) : Detach(old, t) = u}, b)]

\* end of the for...of loop in 'resume-recording'
DrainEnd(s, b) ==
  /\ session' = [s EXCEPT !.pendingChunks = <<>>]
  /\ tasks' = DetachAll(s.pendingChunks, b)
  /\ ctlAck' = "ok"

\* the pause in which the buffered frames arrived is over
MarkResumed(fs) ==
  [i \in DOMAIN fs |->
     IF fs[i].resp = "buffered" THEN [fs[i] EXCEPT !.resp = "resumed"]
     ELSE fs[i]]

\* 'resume-recording', up to its first await
Resume ==
  /\ sock = "connected"
  /\ IF ~(hasSid /\ inMap) THEN
       /\ ctlAck' = "fail"
       /\ UNCHANGED <<session, file, tasks, frames>>
     ELSE
       /\ frames' = MarkResumed(frames)
       /\ LET s1 == [session EXCEPT !.isPaused = FALSE]
              c == Head(session.pendingChunks)
          IN
          IF session.pendingChunks = <<>> THEN
            /\ session' = s1
            /\ ctlAck' = "ok"
            /\ UNCHANGED <<file, tasks>>
          ELSE
            /\ CountKind(tasks, "resume") < MaxDrains
            /\ CASE StreamToDisk(s1) = "hdr" ->
                      /\ session' = [s1 EXCEPT !.tempFile = TRUE]
                      /\ tasks' = Spawn(tasks,
                                        Task("resume", "hdr", c, 1, TRUE, <<>>))
                      /\ UNCHANGED <<file, ctlAck>>
                 [] StreamToDisk(s1) = "write" ->
                      /\ session' = s1
                      /\ file' = FileAppend(file, c)
                      /\ tasks' = Spawn(tasks,
                                     Task("resume", "written", c, 1, TRUE, <<>>))
                      /\ UNCHANGED ctlAck
                 [] StreamToDisk(s1) = "reject" ->
                      /\ DrainEnd(s1, tasks)
                      /\ UNCHANGED file
  /\ UNCHANGED <<sock, hasSid, inMap, nStops, call, wav, health, ws>>

\* the drain loop after `await streamToDisk`: next element of the array it
\* iterates, or the end of the loop
DrainStep(t) ==
  /\ t.kind = "resume"
  /\ t.pc = "written"
  /\ LET A == IF t.live THEN session.pendingChunks ELSE t.arr
         rest == Retire(tasks, t)
     IN
     IF t.idx < Len(A) /\ StreamToDisk(session) = "write" THEN
       /\ file' = FileAppend(file, A[t.idx + 1])
       /\ tasks' = Spawn(rest, [t EXCEPT !.frame = A[t.idx + 1],
                                         !.idx = @ + 1])
       /\ UNCHANGED <<session, ctlAck>>
     ELSE
       /\ DrainEnd(session, rest)
       /\ UNCHANGED file
  /\ UNCHANGED <<sock, hasSid, inMap, frames, nStops, call, wav, health, ws>>

\* 'stop-recording' without the `if (!session)` lookup check
Stop_NoLookupCheck ==
  /\ sock = "connected"
  /\ nStops' = nStops + 1
  /\ IF ~hasSid THEN
       /\ ctlAck' = "fail"
       /\ UNCHANGED <<session, tasks>>
     ELSE IF session.tempFile THEN
       /\ session' = [session EXCEPT !.pendingFinalize = TRUE]
       /\ tasks' = Spawn(tasks, PTask("stop"))
       /\ UNCHANGED ctlAck
     ELSE
       /\ session' = [session EXCEPT !.pendingFinalize = FALSE]
       /\ ctlAck' = "ok"
       /\ UNCHANGED tasks
  /\ UNCHANGED <<sock, hasSid, inMap, file, frames, call, wav, health, ws>>

\* 'stop-recording', up to its first await
Stop ==
  /\ sock = "connected"
  /\ nStops' = nStops + 1
  /\ IF ~(hasSid /\ inMap) THEN
       /\ ctlAck' = "fail"
       /\ UNCHANGED <<session, tasks>>
     ELSE IF session.tempFile THEN
       /\ session' = [session EXCEPT !.pendingFinalize = TRUE]
       /\ tasks' = Spawn(tasks, PTask("stop"))
       /\ UNCHANGED ctlAck
     ELSE
       /\ session' = [session EXCEPT !.pendingFinalize = FALSE]
       /\ ctlAck' = "ok"
       /\ UNCHANGED tasks
  /\ UNCHANGED <<sock, hasSid, inMap, file, frames, call, wav, health, ws>>

\* 'disconnect', up to its first await
Disconnect ==
  /\ sock = "connected"
  /\ sock' = "disconnected"
  /\ IF ~(hasSid /\ inMap) THEN
       UNCHANGED <<session, tasks, inMap>>
     ELSE IF session.tempFile /\ ~session.isPaused THEN
       /\ tasks' = Spawn(tasks, PTask("disc"))
       /\ UNCHANGED <<session, inMap>>
     ELSE
       CleanupCall(session, tasks)
  /\ UNCHANGED <<hasSid, file, frames, ctlAck, nStops, call, wav, health, ws>>

\* a handler parked on disk I/O resumes
IoStep ==
  \E t \in BagToSet(tasks) :
    \/ HdrDone(t)
    \/ AudioWritten(t)
    \/ DrainStep(t)
    \/ PStat(t)
    \/ PRead(t)
    \/ CleanupDone(t)

\* a handler parked on the transcription request resumes
NetStep == \E t \in BagToSet(tasks) : PDone(t)

\* the client sends a message, within the bounds
ClientStep ==
  \/ \E rate \in FrameRates : InitMsg(rate)
  \/ \E kind \in FrameKinds, size \in FrameSizes, rate \in FrameRates :
       Len(frames) < MaxFrames /\ AudioMsg(kind, size, rate)
  \/ Pause
  \/ Resume
  \/ nStops < MaxStops /\ Stop
  \/ Disconnect

Next == Connect \/ ClientStep \/ IoStep \/ NetStep \/ Reaper \/ Tick

Spec == Init /\ [][Next]_vars

\* The pause/resume scenario: a client that only streams short frames and
\* pauses and resumes, so that no chunk ever reaches the processing
\* threshold.
DrainClient ==
  \/ \E kind \in FrameKinds :
       Len(frames) < DrainFrames /\ AudioMsg(kind, 3000, 0)
  \/ Pause
  \/ Resume

DrainIo ==
  \E t \in BagToSet(tasks) : HdrDone(t) \/ AudioWritten(t) \/ DrainStep(t)

DrainNext == Connect \/ DrainClient \/ DrainIo

DrainSpec == Init /\ [][DrainNext]_vars

\* The fair scenario: disk I/O completes, the reaper's timer fires and time
\* passes; the transcription request may never be answered (fetch is called
\* without a timeout), so NetStep carries no fairness.  The client records,
\* pauses, resumes and goes away; it sends no stop-recording.
LiveClient ==
  \/ Len(frames) < LiveFrames /\ AudioMsg("wav", 16000, 0)
  \/ Pause
  \/ Resume
  \/ Disconnect

LiveNext == Connect \/ LiveClient \/ IoStep \/ NetStep \/ Reaper \/ Tick

LiveSpec ==
  /\ Init
  /\ [][LiveNext]_vars
  /\ WF_vars(IoStep)
  /\ WF_vars(Reaper)
  /\ WF_vars(Tick)

\* The stop scenario: a client that records, pauses, stops and goes away
\* while the reaper runs; it never resumes, so no drain loop is started.
StopClient ==
  \/ Len(frames) < LiveFrames /\ AudioMsg("wav", 16000, 0)
  \/ Pause
  \/ nStops < MaxStops /\ Stop
  \/ Disconnect

StopIo ==
  \E t \in BagToSet(tasks) :
    \/ HdrDone(t)
    \/ AudioWritten(t)
    \/ PStat(t)
    \/ PRead(t)
    \/ CleanupDone(t)

StopNext == Connect \/ StopClient \/ StopIo \/ NetStep \/ Reaper \/ Tick

StopSpec == Init /\ [][StopNext]_vars

\* The closed-session scenario: a client that records, goes silent until the
\* reaper has removed its session, and then sends stop-recording.
ClosedClient ==
  \/ Len(frames) < LiveFrames /\ AudioMsg("wav", 16000, 0)
  \/ ~inMap /\ nStops < ClosedStops /\ Stop

ClosedNext == Connect \/ ClosedClient \/ StopIo \/ NetStep \/ Reaper \/ Tick

ClosedSpec == Init /\ [][ClosedNext]_vars

\* The control scenario: a client that records, pauses, resumes and stops
\* while the reaper runs, and stays connected after its session expired.
ControlClient ==
  \/ Len(frames) < LiveFrames /\ AudioMsg("wav", 16000, 0)
  \/ Pause
  \/ Resume
  \/ nStops < MaxStops /\ Stop

ControlNext ==
  Connect \/ ControlClient \/ IoStep \/ NetStep \/ Reaper \/ Tick

ControlSpec == Init /\ [][ControlNext]_vars

\* streamToDisk's header write fails (disk full, temp directory gone): the
\* 'audio' handler catches the rejection and emits an 'error' event.
\* session.tempFile stays set and no write stream is created; the failed
\* write may or may not have left an empty file behind.
HdrFail(t) ==
  /\ t.kind = "audio"
  /\ t.pc = "hdr"
  /\ frames' = [frames EXCEPT ![t.frame].resp = "error"]
  /\ tasks' = Retire(tasks, t)
  /\ file' \in {file, [exists |-> TRUE, header |-> FALSE, data |-> <<>>,
                         dataSize |-> 0]}
  /\ UNCHANGED <<sock, hasSid, inMap, session, ctlAck, nStops,
                 call, wav, health, ws>>

\* The disk-fault scenario: a client that streams frames of either kind
\* while the header write of a new temp file may fail; the reaper runs.
FaultClient ==
  \E kind \in FrameKinds, size \in FrameSizes :
    Len(frames) < FaultFrames /\ AudioMsg(kind, size, 0)

FaultIo == \E t \in BagToSet(tasks) : HdrFail(t)

FaultNext ==
  Connect \/ FaultClient \/ FaultIo \/ StopIo \/ NetStep \/ Reaper \/ Tick

FaultSpec == Init /\ [][FaultNext]_vars

\* ------------------------------------------------------ transcribeWithRetry
\* One processAudioChunk call followed through transcribeWithRetry and
\* transcribeAudio, on its own: the chunk file, the credentials and what the
\* two engines answer are the inputs.

\* stats.size of the chunk file when processAudioChunk looks at it
ChunkSizes == {43, 44, 19044, 26214400, 26214401}

\* what one request to the primary service ends in: a text, an empty text,
\* a rejected fetch, a 5xx answer, a 4xx answer whose message says the file
\* format is invalid, or a 200 answer without a text field
PrimaryOutcomes ==
  {"text", "empty", "timeout", "http5xx", "badfile", "malformed"}

\* what whisperFallbackService.transcribe ends in
FallbackOutcomes == {"text", "empty", "throw"}

\* Math.random() in thousandths, within [0, 1)
JitterDraws == {0, 1, 500, 999}

\* error.message of each failure, word by word
Message(e) ==
  CASE e = "nokey" -> <<"Groq", "API", "key", "not", "configured">>
    [] e = "missing" -> <<"File", "not", "found", "or", "not", "readable">>
    [] e = "large" -> <<"Audio", "file", "too", "large">>
    [] e = "timeout" -> <<"network", "timeout">>
    [] e = "http5xx" ->
         <<"API", "request", "failed", "with", "status", "503">>
    [] e = "badfile" -> <<"invalid", "file", "format">>
    [] e = "malformed" ->
         <<"Invalid", "response", "format", "from", "Groq", "API">>
    [] e = "whisper" -> <<"Whisper", "fallback", "transcription", "failed">>
    [] e = "generic" -> <<"Failed", "to", "process", "audio">>

nonRetryableErrors ==
  { <<"API", "key", "not", "configured">>,
    <<"Invalid", "response", "format">>,
    <<"invalid", "file", "format">>,
    <<"file", "not", "found">> }

\* String.prototype.includes, on words: case-sensitive, contiguous
Includes(msg, pat) ==
  \E i \in 0..(Len(msg) - Len(pat)) :
    \A j \in 1..Len(pat) : msg[i + j] = pat[j]

NonRetryable(e) == \E pat \in nonRetryableErrors : Includes(Message(e), pat)

Min(a, b) == IF a <= b THEN a ELSE b

RECURSIVE Pow2(_)
Pow2(n) == IF n = 0 THEN 1 ELSE 2 * Pow2(n - 1)

\* Math.round(num / den) for non-negative integers
RoundDiv(num, den) == (2 * num + den) \div (2 * den)

\* BaseDelay with the exponent off by one
BaseDelay_FromAttempt(attempt) ==
  Min(RETRY_DELAY_MS * Pow2(attempt), MaxDelayMs)

BaseDelay(attempt) == Min(RETRY_DELAY_MS * Pow2(attempt - 1), MaxDelayMs)

\* delay = Math.round(baseDelay * (0.8 + Math.random() * 0.4)), with the
\* random draw r in thousandths
Delay(attempt, r) == RoundDiv(BaseDelay(attempt) * (8000 + 4 * r), 10000)

sessVars ==
  <<sock, hasSid, inMap, session, file, frames, tasks, ctlAck, nStops>>

\* the call as processAudioChunk is about to stat the chunk file; `gone`:
\* transcribeAudio will not find the file readable (a cleanupSession unlinks
\* it once the header is updated)
CallStart(key, size, gone) ==
  [pc |-> "stat", key |-> key, size |-> size, gone |-> gone,
   attempt |-> 0, attempts |-> 0, contacts |-> 0, fallbacks |-> 0,
   waits |-> <<>>, outs |-> <<>>, lastFb |-> "none", fbRate |-> 0,
   err |-> "none", origin |-> "none", thrown |-> "none",
   emitted |-> [type |-> "none"]]

\* session.sampleRate after 'init' and the audio messages so far
SessionRates == {SAMPLE_RATE} \cup (FrameRates \ {0})

\* one call of processAudioChunk on a session whose temp file holds `size`
\* bytes: the header (or, below 44 bytes, a fragment without one) and the
\* audio received so far as one frame
RetryInit ==
  /\ call \in {CallStart(key, size, gone) :
                 key \in BOOLEAN, size \in ChunkSizes, gone \in BOOLEAN}
  /\ sock = "connected"
  /\ hasSid = FALSE
  /\ inMap = TRUE
  /\ \E rate \in SessionRates :
       session = [NewSession EXCEPT !.tempFile = TRUE, !.writeStream = "open",
                                    !.sampleRate = rate]
  /\ LET hdr == call.size >= WavHeaderSize
         rest == IF hdr THEN call.size - WavHeaderSize ELSE call.size
     IN /\ frames = IF rest = 0 THEN <<>>
                    ELSE <<[kind |-> "wav", size |-> rest,
                            resp |-> "received", subs |-> 0]>>
        /\ file = [exists |-> TRUE, header |-> hdr,
                   data |-> IF rest = 0 THEN <<>> ELSE <<1>>,
                   dataSize |-> 0]
  /\ tasks = EmptyBag
  /\ ctlAck = "none"
  /\ nStops = 0
  /\ wav = NoWav
  /\ health = NoHealth
  /\ ws = NoWs

\* processAudioChunk: fs.stat, the 44-byte check and updateWavHeader
RStat ==
  /\ call.pc = "stat"
  /\ call.size = FileSize(file, frames)
  /\ call' = IF call.size < WavHeaderSize
             THEN [call EXCEPT !.pc = "done",
                               !.emitted = [type |-> "error",
                                            message |-> "generic"]]
             ELSE [call EXCEPT !.pc = "attempt", !.attempt = 1]
  /\ file' = IF call.size < WavHeaderSize THEN file
             ELSE [file EXCEPT !.dataSize = call.size - WavHeaderSize]
  /\ UNCHANGED <<sock, hasSid, inMap, session, frames, tasks, ctlAck, nStops,
                 wav, health, ws>>

\* transcribeAudio up to its catch block: one attempt on the primary service
RPrimary(out) ==
  /\ call.pc = "attempt"
  /\ LET c == [call EXCEPT !.attempts = @ + 1, !.lastFb = "none"]
         fails(e, pc) == [c EXCEPT !.pc = pc, !.err = e,
                                   !.outs = Append(@, e)]
     IN call' =
          IF ~call.key THEN fails("nokey", "caught")
          ELSE IF call.gone THEN fails("missing", "fallback")
          ELSE IF call.size > MAX_AUDIO_SIZE THEN fails("large", "fallback")
          ELSE IF out \in {"text", "empty"}
          THEN [c EXCEPT !.pc = "returned", !.contacts = @ + 1,
                         !.outs = Append(@, out),
                         !.origin = IF out = "text" THEN "primary"
                                    ELSE "none"]
          ELSE [fails(out, "fallback") EXCEPT !.contacts = @ + 1]
  /\ UNCHANGED <<sessVars, wav, health, ws>>

\* RFallback whose catch lets the fallback's own error escape
RFallback_ThrowsOwn(fo) ==
  /\ call.pc = "fallback"
  /\ call' =
       IF call.gone
       THEN [call EXCEPT !.pc = "caught", !.lastFb = "noread",
                         !.err = "missing"]
       ELSE LET c == [call EXCEPT !.fallbacks = @ + 1, !.lastFb = fo,
                                  !.fbRate = FallbackRate]
            IN IF fo = "text"
               THEN [c EXCEPT !.pc = "returned", !.origin = "fallback"]
               ELSE IF fo = "throw"
               THEN [c EXCEPT !.pc = "caught", !.err = "whisper"]
               ELSE [c EXCEPT !.pc = "caught"]
  /\ UNCHANGED <<sessVars, wav, health, ws>>

\* transcribeAudio's catch block: the chunk file is read again and handed to
\* the local engine; a text ends the call, anything else (the read fails,
\* the engine throws or returns no text) re-throws the primary's error
RFallback(fo) ==
  /\ call.pc = "fallback"
  /\ call' =
       IF call.gone
       THEN [call EXCEPT !.pc = "caught", !.lastFb = "noread"]
       ELSE LET c == [call EXCEPT !.fallbacks = @ + 1, !.lastFb = fo,
                                  !.fbRate = FallbackRate]
            IN IF fo = "text"
               THEN [c EXCEPT !.pc = "returned", !.origin = "fallback"]
               ELSE [c EXCEPT !.pc = "caught"]
  /\ UNCHANGED <<sessVars, wav, health, ws>>

\* RCaught with a loop that runs one iteration too many
RCaught_OneMore ==
  /\ call.pc = "caught"
  /\ call' = IF NonRetryable(call.err) THEN [call EXCEPT !.pc = "throw"]
             ELSE IF call.attempt <= MAX_RETRIES
             THEN [call EXCEPT !.pc = "wait"]
             ELSE [call EXCEPT !.pc = "throw"]
  /\ UNCHANGED <<sessVars, wav, health, ws>>

\* transcribeWithRetry's catch block: a non-retryable message breaks the
\* loop, the last attempt ends it, any other attempt goes on to wait
RCaught ==
  /\ call.pc = "caught"
  /\ call' = IF NonRetryable(call.err) THEN [call EXCEPT !.pc = "throw"]
             ELSE IF call.attempt < MAX_RETRIES
             THEN [call EXCEPT !.pc = "wait"]
             ELSE [call EXCEPT !.pc = "throw"]
  /\ UNCHANGED <<sessVars, wav, health, ws>>

\* the backoff wait, then the next iteration of the loop
RBackoff(r) ==
  /\ call.pc = "wait"
  /\ call' = [call EXCEPT !.pc = "attempt",
                          !.waits = Append(@, Delay(call.attempt, r)),
                          !.attempt = @ + 1]
  /\ UNCHANGED <<sessVars, wav, health, ws>>

\* processAudioChunk after transcribeWithRetry returned: a non-empty text is
\* emitted as a transcript, an empty one ends in the catch block
REmit ==
  /\ call.pc = "returned"
  /\ call' = [call EXCEPT
                !.pc = "done",
                !.emitted = IF call.origin # "none"
                            THEN [type |-> "transcript", source |-> "groq"]
                            ELSE [type |-> "error", message |-> "generic"]]
  /\ UNCHANGED <<sessVars, wav, health, ws>>

\* transcribeWithRetry throws lastError; processAudioChunk's catch block
\* emits the error event
RThrow ==
  /\ call.pc = "throw"
  /\ call' = [call EXCEPT !.pc = "done", !.thrown = call.err,
                          !.emitted = [type |-> "error",
                                       message |-> "generic"]]
  /\ UNCHANGED <<sessVars, wav, health, ws>>

RetryNext ==
  \/ RStat
  \/ \E out \in PrimaryOutcomes : RPrimary(out)
  \/ \E fo \in FallbackOutcomes : RFallback(fo)
  \/ RCaught
  \/ \E r \in JitterDraws : RBackoff(r)
  \/ REmit
  \/ RThrow

RetrySpec == RetryInit /\ [][RetryNext]_vars

\* ------------------------------------------------------------- WAV header
\* The 44 header bytes of one temp file, from createWavHeader to the
\* updateWavHeader of each processAudioChunk, with the audio bytes appended
\* behind them counted in wav.bytes and the appends in wav.n.

\* Buffer.alloc(n): n zero bytes
Alloc(n) == [i \in 1..n |-> 0]

\* the character codes buffer.write(str, offset) stores
Ascii(str) ==
  CASE str = "RIFF" -> <<82, 73, 70, 70>>
    [] str = "WAVE" -> <<87, 65, 86, 69>>
    [] str = "fmt " -> <<102, 109, 116, 32>>
    [] str = "data" -> <<100, 97, 116, 97>>

UInt32LE(v) ==
  <<v % 256, (v \div 256) % 256, (v \div 65536) % 256,
    (v \div 16777216) % 256>>

UInt16LE(v) == <<v % 256, (v \div 256) % 256>>

\* buf with `bytes` stored from byte offset off on (offsets count from 0)
WriteAt(buf, bytes, off) ==
  [i \in DOMAIN buf |->
     IF i - off \in DOMAIN bytes THEN bytes[i - off] ELSE buf[i]]

ReadUInt32LE(buf, off) ==
  buf[off + 1] + 256 * buf[off + 2] + 65536 * buf[off + 3]
    + 16777216 * buf[off + 4]

ReadUInt16LE(buf, off) == buf[off + 1] + 256 * buf[off + 2]

\* createWavHeader with the byte rate not divided by 8
createWavHeader_RateInBits(sampleRate, channels, bitDepth, format) ==
  LET byteRate == sampleRate * channels * bitDepth
      blockAlign == (channels * bitDepth) \div 8
      dataSize == 0
      b0 == Alloc(WavHeaderSize)
      b1 == WriteAt(b0, Ascii("RIFF"), 0)
      b2 == WriteAt(b1, UInt32LE(36 + dataSize), 4)
      b3 == WriteAt(b2, Ascii("WAVE"), 8)
      b4 == WriteAt(b3, Ascii("fmt "), 12)
      b5 == WriteAt(b4, UInt32LE(16), 16)
      b6 == WriteAt(b5, UInt16LE(format), 20)
      b7 == WriteAt(b6, UInt16LE(channels), 22)
      b8 == WriteAt(b7, UInt32LE(sampleRate), 24)
      b9 == WriteAt(b8, UInt32LE(byteRate), 28)
      b10 == WriteAt(b9, UInt16LE(blockAlign), 32)
      b11 == WriteAt(b10, UInt16LE(bitDepth), 34)
      b12 == WriteAt(b11, Ascii("data"), 36)
  IN WriteAt(b12, UInt32LE(dataSize), 40)

createWavHeader(sampleRate, channels, bitDepth, format) ==
  LET byteRate == (sampleRate * channels * bitDepth) \div 8
      blockAlign == (channels * bitDepth) \div 8
      dataSize == 0
      b0 == Alloc(WavHeaderSize)
      b1 == WriteAt(b0, Ascii("RIFF"), 0)
      b2 == WriteAt(b1, UInt32LE(36 + dataSize), 4)
      b3 == WriteAt(b2, Ascii("WAVE"), 8)
      b4 == WriteAt(b3, Ascii("fmt "), 12)
      b5 == WriteAt(b4, UInt32LE(16), 16)
      b6 == WriteAt(b5, UInt16LE(format), 20)
      b7 == WriteAt(b6, UInt16LE(channels), 22)
      b8 == WriteAt(b7, UInt32LE(sampleRate), 24)
      b9 == WriteAt(b8, UInt32LE(byteRate), 28)
      b10 == WriteAt(b9, UInt16LE(blockAlign), 32)
      b11 == WriteAt(b10, UInt16LE(bitDepth), 34)
      b12 == WriteAt(b11, Ascii("data"), 36)
  IN WriteAt(b12, UInt32LE(dataSize), 40)

\* the file's first 44 bytes after updateWavHeader(filePath, dataSize)
updateWavHeader(buf, dataSize) ==
  LET fileSize == 36 + dataSize
      b1 == WriteAt(buf, UInt32LE(fileSize - 8), 4)
  IN WriteAt(b1, UInt32LE(dataSize), 40)

\* a session in the live map that has no temp file yet
WavInit ==
  /\ sock = "connected"
  /\ hasSid = FALSE
  /\ inMap = TRUE
  /\ \E rate \in SessionRates :
       session = [NewSession EXCEPT !.sampleRate = rate]
  /\ file = NoFile
  /\ frames = <<>>
  /\ tasks = EmptyBag
  /\ ctlAck = "none"
  /\ nStops = 0
  /\ call = NoCall
  /\ wav = NoWav
  /\ health = NoHealth
  /\ ws = NoWs

\* streamToDisk for the first frame: the header stub is written to the new
\* temp file
WCreate ==
  /\ wav.buf = <<>>
  /\ wav' = [wav EXCEPT
              !.buf = createWavHeader(session.sampleRate, 1, 16, 1)]
  /\ UNCHANGED <<sessVars, call, health, ws>>

\* writeStream.write(audioData): the frame's bytes go behind the header
WAppend(size) ==
  /\ wav.buf # <<>>
  /\ wav.n < MaxWavFrames
  /\ wav' = [wav EXCEPT !.bytes = @ + size, !.n = @ + 1]
  /\ UNCHANGED <<sessVars, call, health, ws>>

\* processAudioChunk: fs.stat, then updateWavHeader with stats.size - 44;
\* wav.final keeps the number of audio bytes the file held at that moment
WFinalize ==
  /\ wav.buf # <<>>
  /\ LET size == Len(wav.buf) + wav.bytes
     IN /\ size >= WavHeaderSize
        /\ wav' = [wav EXCEPT
                    !.buf = updateWavHeader(@, size - WavHeaderSize),
                    !.final = wav.bytes]
  /\ UNCHANGED <<sessVars, call, health, ws>>

WavNext ==
  \/ WCreate
  \/ \E size \in FrameSizes : WAppend(size)
  \/ WFinalize

WavSpec == WavInit /\ [][WavNext]_vars

\* -------------------------------------------------------------- GET /health
\* The Express application of server.ts next to the speech sessions: the
\* CORS middleware, the /health route and the error handler.

\* process.env.NODE_ENV and ALLOWED_ORIGINS as the process was started
NodeEnvs == {"unset", "development", "test", "production"}
AllowedOrigins == {"*", "list"}

\* the Origin header of a request: absent, one of the listed origins, or
\* any other
Origins == {"none", "listed", "foreign"}

\* process.env.NODE_ENV || 'development'
NodeEnv(h) == IF h.env = "unset" THEN "development" ELSE h.env

\* corsOptions.origin: whether the callback is given (null, true)
CorsAllows(h, origin) ==
  \/ origin = "none"
  \/ NodeEnv(h) = "development"
  \/ (h.origins = "list" /\ origin = "listed")
  \/ h.origins = "*"

\* what errorHandler answers to the CORS middleware's error
CorsError == [code |-> 500, success |-> FALSE, error |-> "INTERNAL_ERROR"]

\* the body built by the /health route
HealthBody(h) ==
  [code |-> 200, status |-> "ok", service |-> "mediview-video-service",
   version |-> "1.0.0", timestamp |-> TRUE, environment |-> NodeEnv(h),
   uptime |-> TRUE, memoryUsage |-> TRUE]

\* /health route that reports the service busy while a speech session is in
\* the live map
HealthRoute_BusyWithSessions(h) ==
  IF inMap THEN [HealthBody(h) EXCEPT !.code = 503, !.status = "busy"]
  ELSE HealthBody(h)

\* app.get('/health'): the answer reads nothing but the process environment
HealthRoute(h) == HealthBody(h)

\* one GET /health passes the CORS middleware and reaches the route, or is
\* turned away with the error handler's answer; live notes whether a speech
\* session was in the map when the request was answered
Health(origin) ==
  /\ health' = [health EXCEPT
                 !.resp = IF CorsAllows(health, origin)
                          THEN HealthRoute(health)
                          ELSE CorsError,
                 !.live = inMap]
  /\ UNCHANGED <<sessVars, call, wav, ws>>

HealthInit ==
  /\ sock = "none"
  /\ hasSid = FALSE
  /\ inMap = FALSE
  /\ session = NewSession
  /\ file = NoFile
  /\ frames = <<>>
  /\ tasks = EmptyBag
  /\ ctlAck = "none"
  /\ nStops = 0
  /\ call = NoCall
  /\ wav = NoWav
  /\ ws = NoWs
  /\ health \in {[NoHealth EXCEPT !.env = e, !.origins = o] :
                    e \in NodeEnvs, o \in AllowedOrigins}

\* the closed-session scenario with health checks arriving at any time
HealthNext ==
  \/ ClosedNext
  \/ \E origin \in Origins : Health(origin)

HealthSpec == HealthInit /\ [][HealthNext]_vars

\* ------------------------------------------------------- WebSocketService
\* The client's wrapper around socket.io-client.  A socket made by io() is
\* "connecting" (the manager is opening or re-opening its transport),
\* "connected", or "closed" (socket.disconnect() was called, the server
\* closed it, or the manager gave up).

MaxSockets == 3
MaxMsgs == 3

\* managerOptions.reconnectionAttempts
reconnectionAttempts == 5

\* reconnectAttempts is only compared with reconnectionAttempts: values
\* above it behave alike and are kept as one
AttemptsCap == reconnectionAttempts + 1

\* this.socket?.connected
isConnected(w) == w.cur # 0 /\ w.socks[w.cur] = "connected"

\* sockets that hold or seek a connection
LiveSockets(w) == {i \in DOMAIN w.socks : w.socks[i] # "closed"}

\* connect(): a new socket is made by io() unless this.socket is connected;
\* the socket it replaces is neither closed nor unhooked
connect(w) ==
  IF isConnected(w) THEN w
  ELSE [w EXCEPT !.isExplicitDisconnect = FALSE,
                 !.socks = Append(@, "connecting"),
                 !.cur = Len(w.socks) + 1]

\* processMessageQueue that emits the first queued message only
processMessageQueue_OneOnly(w) ==
  IF ~isConnected(w) \/ w.messageQueue = <<>> THEN w
  ELSE [w EXCEPT !.emitted = Append(@, Head(w.messageQueue)),
                 !.messageQueue = Tail(@),
                 !.flushed = @ + 1]

\* processMessageQueue(): with this.socket connected, every queued message
\* is shifted and emitted, first in first out
processMessageQueue(w) ==
  IF ~isConnected(w) THEN w
  ELSE [w EXCEPT !.emitted = @ \o w.messageQueue,
                 !.messageQueue = <<>>,
                 !.flushed = @ + Len(w.messageQueue)]

\* attemptReconnect()
attemptReconnect(w) ==
  IF w.reconnectTimer \/ w.isExplicitDisconnect THEN w
  ELSE LET n == Min(w.reconnectAttempts + 1, AttemptsCap)
       IN IF n > reconnectionAttempts
          THEN [w EXCEPT !.reconnectAttempts = n]
          ELSE [w EXCEPT !.reconnectAttempts = n, !.reconnectTimer = TRUE]

\* cleanup(): this.socket is unhooked and disconnected, the timer cleared
cleanup(w) ==
  [w EXCEPT !.socks = IF w.cur # 0 THEN [@ EXCEPT ![w.cur] = "closed"] ELSE @,
            !.cur = 0,
            !.reconnectTimer = FALSE]

\* a call that reaches io() needs room for one more socket
Room(w) == isConnected(w) \/ Len(w.socks) < MaxSockets

\* the application calls connect()
WsConnect ==
  /\ Room(ws)
  /\ ws' = connect(ws)
  /\ UNCHANGED <<sessVars, call, wav, health>>

\* the application calls disconnect()
WsDisconnect ==
  /\ ws' = cleanup([ws EXCEPT !.isExplicitDisconnect = TRUE])
  /\ UNCHANGED <<sessVars, call, wav, health>>

\* the application calls send(event, data): emitted at once on a connected
\* socket, otherwise queued and connect() called
WsSend ==
  /\ ws.sent < MaxMsgs
  /\ Room(ws)
  /\ LET m == ws.sent + 1
     IN ws' = IF isConnected(ws)
              THEN [ws EXCEPT !.sent = m, !.emitted = Append(@, m)]
              ELSE connect([ws EXCEPT !.sent = m,
                                      !.messageQueue = Append(@, m)])
  /\ UNCHANGED <<sessVars, call, wav, health>>

\* socket i fires 'connect' (first connection, or the manager's own
\* reconnection): the handler registered by setupEventListeners runs
OnConnect(i) ==
  /\ ws.socks[i] = "connecting"
  /\ ws' = processMessageQueue([ws EXCEPT !.socks[i] = "connected",
                                          !.reconnectAttempts = 0])
  /\ UNCHANGED <<sessVars, call, wav, health>>

\* socket i fires 'disconnect': the transport was lost (the manager goes on
\* to reconnect it) or the server closed the socket
OnDisconnect(i) ==
  /\ ws.socks[i] = "connected"
  /\ \E to \in {"connecting", "closed"} :
       ws' = LET w == [ws EXCEPT !.socks[i] = to]
             IN IF w.isExplicitDisconnect THEN w ELSE attemptReconnect(w)
  /\ UNCHANGED <<sessVars, call, wav, health>>

\* socket i fires 'connect_error': the manager tries again or has given up
OnConnectError(i) ==
  /\ ws.socks[i] = "connecting"
  /\ \E to \in {"connecting", "closed"} :
       ws' = attemptReconnect([ws EXCEPT !.socks[i] = to])
  /\ UNCHANGED <<sessVars, call, wav, health>>

\* the reconnect timer fires
ReconnectTimer ==
  /\ ws.reconnectTimer
  /\ Room(ws)
  /\ ws' = LET w == [ws EXCEPT !.reconnectTimer = FALSE]
           IN IF w.isExplicitDisconnect THEN w ELSE connect(w)
  /\ UNCHANGED <<sessVars, call, wav, health>>

\* the constructor, with autoConnect set or not
SocketInit ==
  /\ sock = "none"
  /\ hasSid = FALSE
  /\ inMap = FALSE
  /\ session = NewSession
  /\ file = NoFile
  /\ frames = <<>>
  /\ tasks = EmptyBag
  /\ ctlAck = "none"
  /\ nStops = 0
  /\ call = NoCall
  /\ wav = NoWav
  /\ health = NoHealth
  /\ ws \in {NoWs, connect(NoWs)}

SocketNext ==
  \/ WsConnect
  \/ WsDisconnect
  \/ WsSend
  \/ \E i \in DOMAIN ws.socks : OnConnect(i)
  \/ \E i \in DOMAIN ws.socks : OnDisconnect(i)
  \/ \E i \in DOMAIN ws.socks : OnConnectError(i)
  \/ ReconnectTimer

SocketSpec == SocketInit /\ [][SocketNext]_vars

\* ------------------------------------------------------------------ claims
\* the frame of audio message i was acknowledged "buffered" (it arrived
\* while the session was paused)
Buffered(i) == frames[i].resp \in {"buffered", "resumed"}


\* first position of frame x in a file content
Pos(seq, x) == CHOOSE i \in DOMAIN seq : seq[i] = x

\* this step handles a newly arrived audio message
Arrives == Len(frames') = Len(frames) + 1

\* this step appends bytes to the temp file
Writes == file'.exists /\ Len(file'.data) > Len(file.data)

\* this step is the return of a 'stop-recording' handler: after its awaited
\* processAudioChunk, or at once when it has nothing to await
StopReturns ==
  \/ CountKind(tasks', "stop") < CountKind(tasks, "stop")
  \/ Stop /\ CountKind(tasks', "stop") = CountKind(tasks, "stop")

\* this step is the return of a 'stop-recording' handler that had found the
\* session in the map
StopReturnsFound ==
  \/ CountKind(tasks', "stop") < CountKind(tasks, "stop")
  \/ Stop /\ hasSid /\ inMap /\ ~session.tempFile

\* C1: at any time at most one processAudioChunk (finalize-and-transcribe)
\* is in flight for the session.
C1_OneInFlight == InFlight <= 1

\* C2: no audio frame's bytes are contained in more than one transcription
\* submission.
C2_NoByteSubmittedTwice == \A i \in DOMAIN frames : frames[i].subs <= 1

C5_PauseResumeSucceed ==
  [][/\ (Pause /\ inMap /\ ~session.isPaused)
          => (session'.isPaused /\ ctlAck' = "ok")
     /\ (Resume /\ inMap /\ session.isPaused)
          => /\ ~session'.isPaused
             /\ \/ ctlAck' = "ok"
                \/ CountKind(tasks', "resume") > CountKind(tasks, "resume")]_vars

C8_RemainderSubmitted ==
  [][(file.exists /\ ~file'.exists)
       => \A i \in InFile(file) : frames[i].subs >= 1]_vars

C11_StopOnClosedIsNoOp ==
  [][(Stop /\ ~inMap)
       => /\ ctlAck' = "fail"
          /\ UNCHANGED <<inMap, session, file, tasks>>]_vars

\* two stop-recording messages have been refused for a session that had a
\* temp file and was removed by the reaper
C11_Witness ==
  /\ sock = "connected"
  /\ hasSid
  /\ ~inMap /\ ~file.exists
  /\ session.tempFile
  /\ nStops = 2
  /\ ctlAck = "fail"

\* the call is over
CallDone == call.pc = "done"

\* the failures the retry policy treats as retryable: the request was
\* rejected or timed out, or the service answered 5xx
Transient(e) == e \in {"timeout", "http5xx"}

\* C12: one call of transcribeWithRetry makes at most MAX_RETRIES attempts on
\* the primary service.
C12_AttemptsBounded == call.pc # "none" => call.attempts <= MAX_RETRIES

\* the primary failed with a retryable error MAX_RETRIES times and the call
\* ended there
C12_Witness ==
  /\ CallDone
  /\ call.attempts = MAX_RETRIES
  /\ Len(call.outs) = MAX_RETRIES
  /\ \A i \in DOMAIN call.outs : Transient(call.outs[i])
  /\ call.thrown # "none"

\* a step of the call that waits before the next attempt
Waits == Len(call'.waits) > Len(call.waits)

\* the base of the n-th wait as the retry policy states it
PolicyBase(n) == Min(1000 * Pow2(n - 1), 30000)

\* C13: the wait after the n-th failed attempt happens only for
\* n < MAX_RETRIES and lies within [0.8, 1.2] x min(1000 x 2^(n-1), 30000) ms;
\* no wait follows the last attempt.
C13_BackoffWithinBounds ==
  [][Waits =>
       LET n == call.attempt
           d == call'.waits[Len(call'.waits)]
       IN /\ call.attempts = n
          /\ n < MAX_RETRIES
          /\ 8 * PolicyBase(n) <= 10 * d
          /\ 10 * d <= 12 * PolicyBase(n)
          /\ Len(call'.waits) = n]_vars

\* three failed attempts with the shortest first and the longest second wait,
\* and none after the third
C13_Witness ==
  /\ CallDone
  /\ call.attempts = MAX_RETRIES
  /\ call.thrown # "none"
  /\ call.waits = <<800, 2399>>

\* every attempt so far failed and the loop has no attempt left
Exhausted ==
  /\ call.attempts = MAX_RETRIES
  /\ \A i \in DOMAIN call.outs : call.outs[i] \notin {"text", "empty"}

\* C14: the fallback engine is invoked only once the primary's retries are
\* exhausted or the primary failed with a non-retryable error, never after
\* an earlier failed attempt (chunks within the size limit).
C14_FallbackOnlyAfterRetries ==
  (call.fallbacks > 0 /\ call.size <= MAX_AUDIO_SIZE)
    => (Exhausted \/ NonRetryable(call.err))

\* the primary's failure of the latest attempt
LastFailure == call.outs[Len(call.outs)]

\* C15: when the primary fails and the fallback fails too or returns no
\* text, the error thrown to the caller of transcribeWithRetry is the
\* primary's own error of the last attempt, never the fallback's.
C15_OriginalErrorPropagates ==
  call.thrown # "none" =>
    /\ call.thrown = LastFailure
    /\ call.thrown # "whisper"

\* three service failures, the fallback threw after each, and the call threw
\* the last of them
C15_Witness ==
  /\ CallDone
  /\ call.outs = <<"timeout", "timeout", "http5xx">>
  /\ call.fallbacks = MAX_RETRIES
  /\ call.lastFb = "throw"
  /\ call.thrown = "http5xx"

\* C16: when the primary's retries are exhausted and the fallback failed, the
\* error event sent to the client carries the primary's last failure reason.
C16_ErrorCarriesPrimaryReason ==
  (CallDone /\ Exhausted /\ call.thrown # "none"
     /\ Transient(LastFailure)) =>
    /\ call.emitted.type = "error"
    /\ Message(call.emitted.message) = Message(LastFailure)

\* C17: an emitted transcript names its real origin: its source is
\* "fallback" exactly when the fallback engine produced the text (the
\* primary's texts carry the primary's label).
C17_SourceNamesOrigin ==
  call.emitted.type = "transcript" =>
    (call.origin = "fallback" <=> call.emitted.source = "fallback")

\* C18: a primary failure of a non-retryable kind (missing credentials,
\* malformed response, payload rejected as malformed, unreadable or missing
\* file) ends the retry loop at once: one attempt, no backoff wait.
C18_NonRetryableAbortsAtOnce ==
  (call.outs # <<>>
     /\ call.outs[1] \in {"nokey", "malformed", "badfile", "missing"}) =>
    /\ call.attempts = 1
    /\ call.waits = <<>>

C20_BadSizeFailsFast ==
  (call.size < WavHeaderSize \/ call.size > MAX_AUDIO_SIZE) =>
    /\ call.contacts = 0
    /\ call.attempts <= 1
    /\ call.waits = <<>>
    /\ call.fallbacks = 0

\* C21: whenever the fallback engine is invoked for a chunk it is given the
\* session's sample rate.
C21_FallbackGetsSessionRate ==
  call.fallbacks > 0 => call.fbRate = session.sampleRate

\* this step is the 'audio' handler of message i acknowledging the frame
\* after its bytes were written
Acks(i) ==
  /\ i \in DOMAIN frames
  /\ frames[i].resp = "none"
  /\ frames'[i].resp = "received"

\* this step starts a processAudioChunk
Flushes == InFlight' > InFlight

\* C22: the first audio frame of a session, once accepted and written,
\* always triggers a transcription, whatever its size.
C22_FirstFrameFlushes == [][Acks(1) => Flushes]_vars

\* the frames in the temp file that no transcription request has carried yet
Unflushed == SelectSeq(file.data, LAMBDA i : frames[i].subs = 0)

\* C23: for a frame written after an earlier chunk was flushed, with the
\* session not marked for finalization, the flush decision is true exactly
\* when the bytes accumulated since that flush reach
\* sampleRate x 2 x 0.5.
C23_FlushAtHalfSecond ==
  [][\A i \in DOMAIN frames :
       (/\ Acks(i)
        /\ \E j \in 1..(i - 1) : frames[j].subs >= 1
        /\ inMap /\ file.exists
        /\ ~session.pendingFinalize)
         => (Flushes <=>
               SumSizes(frames, Unflushed) >= session.sampleRate)]_vars

\* C24: the finalized WAV file declares its data size (offset 40) as the
\* total of the appended bytes and its RIFF size (offset 4) as 36 plus that
\* total.
C24_HeaderRoundTrip ==
  (wav.final >= 0 /\ wav.final = wav.bytes) =>
    /\ ReadUInt32LE(wav.buf, 40) = wav.bytes
    /\ ReadUInt32LE(wav.buf, 4) = 36 + wav.bytes

\* the header stub is in the file and no updateWavHeader has run on it
Unpatched == wav.buf # <<>> /\ wav.final < 0

\* the stub is 44 bytes long and declares PCM, one channel of 16 bits at the
\* session's sample rate, with the byte rate and block align computed from
\* these
StubFormat ==
  LET format == ReadUInt16LE(wav.buf, 20)
      channels == ReadUInt16LE(wav.buf, 22)
      sampleRate == ReadUInt32LE(wav.buf, 24)
      bitsPerSample == ReadUInt16LE(wav.buf, 34)
  IN /\ Len(wav.buf) = 44
     /\ format = 1
     /\ channels = 1
     /\ sampleRate = session.sampleRate
     /\ bitsPerSample = 16
     /\ 8 * ReadUInt32LE(wav.buf, 28) = sampleRate * channels * bitsPerSample
     /\ 8 * ReadUInt16LE(wav.buf, 32) = channels * bitsPerSample

\* C25 as claimed: until patched, the header stub is 44 bytes with PCM tag 1,
\* the computed byte rate and block align, and both size fields zero.
C25_StubSizesZero ==
  Unpatched =>
    /\ StubFormat
    /\ ReadUInt32LE(wav.buf, 4) = 0
    /\ ReadUInt32LE(wav.buf, 40) = 0

\* C25 as amended: until patched, the header stub is 44 bytes with PCM tag 1,
\* the computed byte rate and block align, data size 0 at offset 40 and RIFF
\* size 36 at offset 4.
C25_StubSizesOfEmptyFile ==
  Unpatched =>
    /\ StubFormat
    /\ ReadUInt32LE(wav.buf, 4) = 36
    /\ ReadUInt32LE(wav.buf, 40) = 0

\* an 8 kHz session's stub with two frames behind it and not yet patched
C25_Witness ==
  /\ Unpatched
  /\ session.sampleRate = 8000
  /\ ReadUInt32LE(wav.buf, 28) = 16000
  /\ wav.n = 2

\* the audio message handled in this step
NewFrame == frames'[Len(frames')]

\* C26: an audio frame without the RIFF/WAVE signature handled while the
\* session is recording is answered with an error event, refreshes
\* lastProcessed, starts no write and no processing and leaves the session in
\* the live map, recording; no byte of it is ever in the temp file.
C26_MalformedFrameDropped ==
  [][/\ (Arrives /\ NewFrame.kind = "raw" /\ inMap /\ ~session.isPaused)
          => /\ NewFrame.resp = "error"
             /\ ~session'.stale
             /\ inMap' /\ ~session'.isPaused
             /\ session'.pendingChunks = session.pendingChunks
             /\ UNCHANGED <<file, tasks>>
     /\ \A i \in DOMAIN frames' :
          (frames'[i].kind = "raw" /\ frames'[i].resp = "error")
            => i \notin InFile(file')]_vars

\* a malformed frame was refused after a well-formed one was stored; the
\* session is live and fresh and the file holds the first frame only
C26_Witness ==
  /\ Len(frames) = 2
  /\ frames[1].kind = "wav" /\ frames[1].resp = "received"
  /\ frames[2].kind = "raw" /\ frames[2].resp = "error"
  /\ inMap /\ ~session.stale /\ ~session.isPaused
  /\ file.exists /\ file.data = <<1>>

\* C27: a frame handled while a processAudioChunk of the session is in
\* flight is not appended to the file that run is transcribing.
C27_NewChunkWhileInFlight ==
  [][(Arrives /\ InFlight > 0) => file' = file]_vars

\* transcribeWithRetry calls that have not settled yet
Transcribing(b) == SumCopies({t \in BagToSet(b) : t.pc = "p_wait"}, b)

\* this step is a transcribeWithRetry settling, with a text or an error
Completes == Transcribing(tasks') < Transcribing(tasks)

\* C28: when the transcription of a chunk completes, with a transcript or an
\* error, on a session that stays open, the chunk's temp file is deleted.
C28_ChunkStorageReleased ==
  [][(Completes /\ sock = "connected" /\ inMap) => ~file'.exists]_vars

\* header writes of streamToDisk that are still pending
HdrPending == SumCopies({t \in BagToSet(tasks) : t.pc = "hdr"}, tasks)

\* C29: an earlier failure does not close the session to new audio: a
\* well-formed frame handled while the session is in the live map and
\* recording, with no header write pending and no cleanup under way, is
\* accepted and written.
C29_SessionSurvivesFailure ==
  [][(/\ Arrives /\ NewFrame.kind = "wav"
      /\ inMap /\ ~session.isPaused
      /\ session.writeStream # "ended"
      /\ HdrPending = 0)
       => (NewFrame.resp # "error"
             /\ (Writes \/ HdrPending' = 1))]_vars

C31_SampleRateFixed ==
  [][frames # <<>> => session'.sampleRate = session.sampleRate]_vars

\* C32: a pause-recording, resume-recording or stop-recording handled when
\* the session is not in the live map is answered with a failed
\* acknowledgment, changes nothing of the session, its file or its handlers,
\* and leaves the socket connected.
C32_ControlOnUnknownSession ==
  [][((Pause \/ Resume \/ Stop) /\ ~inMap)
       => /\ ctlAck' = "fail"
          /\ sock' = "connected"
          /\ UNCHANGED <<inMap, session, file, tasks>>]_vars

\* the socket carries its session id, the reaper has removed the session,
\* and a pause or resume sent after that was refused
C32_Witness ==
  /\ sock = "connected"
  /\ hasSid /\ ~inMap
  /\ nStops = 0
  /\ ctlAck = "fail"
  /\ tasks = EmptyBag

\* C33: every GET /health that the CORS middleware admits is answered 200
\* with status 'ok', service 'mediview-video-service', an environment and a
\* timestamp, whatever the speech sessions are doing: connected or not, in
\* the live map or reaped, with handlers pending or none.
C33_HealthAlwaysOk ==
  [][\A origin \in Origins :
       (Health(origin) /\ CorsAllows(health, origin))
         => /\ health'.resp.code = 200
            /\ health'.resp.status = "ok"
            /\ health'.resp.service = "mediview-video-service"
            /\ health'.resp.environment \in NodeEnvs \ {"unset"}
            /\ health'.resp.timestamp]_vars

\* a production server answered 200 while a speech session was in the live
\* map with a handler pending
C33_Witness ==
  /\ health.env = "production"
  /\ health.resp.code = 200
  /\ health.live
  /\ inMap
  /\ tasks # EmptyBag

\* C34: a well-formed WAV frame handled while the session is in the live map
\* and recording is never refused: it is appended to the temp file, or waits
\* on the header write to be appended after it, also when the header write
\* of an earlier frame is still in progress.
C34_ValidFrameAppended ==
  [][(Arrives /\ NewFrame.kind = "wav" /\ inMap /\ ~session.isPaused)
       => (NewFrame.resp # "error" /\ (Writes \/ HdrPending' > HdrPending))]_vars

Reads ==
  \E t \in BagToSet(tasks) :
    /\ t.pc = "p_read"
    /\ file.exists
    /\ tasks' = Swap(tasks, t, [t EXCEPT !.pc = "p_wait"])

\* C36: whenever the temp file is read for submission, the data size in its
\* header equals the number of data bytes in the content read, also when
\* frames were appended after the size was measured.
C36_HeaderMatchesContentRead ==
  [][Reads => file.dataSize = SumSizes(frames, file.data)]_vars

\* the 'audio' handler of frame i has not returned yet: it waits on the
\* header write or on the write of its bytes
Handling(i) ==
  \E t \in BagToSet(tasks) :
    t.kind = "audio" /\ t.frame = i /\ t.pc \in {"hdr", "written"}

\* C37: no 'audio' handler returns without a response: a frame that has got
\* neither an acknowledgment nor an error event is still being handled, also
\* when the reaper had removed the session before the frame arrived.
C37_EveryFrameAnswered ==
  \A i \in DOMAIN frames : frames[i].resp = "none" => Handling(i)

\* processAudioChunk calls that have taken the file's size and have not
\* settled: their transcription attempts read the temp file
ReadingFile ==
  SumCopies({t \in BagToSet(tasks) : t.pc \in {"p_read", "p_wait"}}, tasks)

\* C38: the temp file is never deleted, by the reaper's cleanup or by the
\* disconnect cleanup, while a transcription that reads it is in flight.
C38_NoDeleteUnderTranscription ==
  [][(file.exists /\ ~file'.exists) => ReadingFile = 0]_vars

\* the messages passed to send() so far, in the order of the calls
Sent(w) == [i \in 1..w.sent |-> i]

\* this step is the 'connect' event of the instance's socket
Connects == ~isConnected(ws) /\ isConnected(ws')

\* C39: the messages passed to send() are emitted once each and in the
\* order of the calls, whatever was queued while disconnected: at any time
\* the emitted messages followed by the queued ones are the messages sent;
\* and the step in which the instance's socket connects emits the whole
\* queue.
C39_QueueFlushedOnceInOrder ==
  [][/\ ws'.emitted \o ws'.messageQueue = Sent(ws')
     /\ Connects => (/\ ws'.messageQueue = <<>>
                     /\ ws'.emitted = ws.emitted \o ws.messageQueue)]_vars

\* three messages were sent, at least two of them while disconnected, a
\* reconnect made a second socket, and all three have been emitted
C39_Witness ==
  /\ ws.sent = 3
  /\ ws.flushed >= 2
  /\ Len(ws.socks) >= 2
  /\ ws.reconnectAttempts = 0
  /\ ws.emitted = <<1, 2, 3>>
  /\ ws.messageQueue = <<>>

\* C40: the instance never has more than one socket holding or seeking a
\* connection, and while it is explicitly disconnected no socket is made.
C40_OneLiveSocket ==
  [][/\ Cardinality(LiveSockets(ws')) <= 1
     /\ (ws.isExplicitDisconnect /\ ws'.isExplicitDisconnect)
          => Len(ws'.socks) = Len(ws.socks)]_vars
====
